---- MODULE Spec2Model ----
(***************************************************************************)
(* A model of the QAOA pipeline of the repository:                         *)
(*   PyToQ.expression_to_q            (src/src/qubo_from_python.py)        *)
(*   PyToQ.q_matrix_to_hamiltonian    (src/src/qubo_from_python.py)        *)
(*   QAOACircuit.build_circuit        (src/src/qaoa_circuit.py)            *)
(*   QAOARunner / QAOAOptimizer       (src/src/qaoa_runner.py,             *)
(*                                     src/src/core/qaoa_optimizer.py)     *)
(*   solve_qaoa                       (src/src/api/main.py)                *)
(*                                                                         *)
(* Numbers.  The inputs are integers.  A Hamiltonian coefficient is kept   *)
(* in quarter units: the model's coefficient is CoeffScale (= 4) times the *)
(* float the code computes, so -0.5*q is -2*q and 0.25*q is q.  All the    *)
(* products involved are exact in IEEE doubles for the small integers of   *)
(* the model.  Rotation angles are kept in the same quarter units.         *)
(*                                                                         *)
(* Symbols.  A SymPy symbol is identified by its name (all symbols of the  *)
(* program carry the same assumption binary=True), and a name is the       *)
(* sequence of its characters.                                             *)
(***************************************************************************)
EXTENDS Integers, Sequences, FiniteSets, TLC

VARIABLES
    \* ---- PyToQ.expression_to_q / PyToQ.q_matrix_to_hamiltonian
    expr,       \* the SymPy expression handed to expression_to_q
    pc,         \* position in the conversion
    Q,          \* the local matrix Q of expression_to_q (or the given matrix)
    remaining,  \* terms of expanded.as_coefficients_dict() not yet visited
    qres,       \* what expression_to_q gave its caller
    hres,       \* what q_matrix_to_hamiltonian gave its caller
    \* ---- QAOACircuit.build_circuit and the estimator call on its result
    num_qubits,        \* self.num_qubits
    cost_hamiltonian,  \* self.cost_hamiltonian: list of <<Pauli string, coefficient>>
    p,                 \* self.p
    gamma, beta,       \* the arguments of build_circuit
    qc,                \* the gates appended to the circuit so far
    cpc,               \* position in build_circuit
    layer, half,       \* the loop variable, and the call within the loop body
    blocks,            \* for each call that appended gates: what it was and which gates
    observed,          \* per Hamiltonian term, the qubits the estimator applies Z to
    transpile_needed,  \* QAOARunner.transpile_needed: FALSE simulator, TRUE ibm
    \* ---- QAOARunner.optimize / QAOAOptimizer.optimize
    okind,             \* the class of the object: "runner" or "optimizer"
    opc,               \* position: "idle", "minimizing", "aborted", "done"
    iteration,         \* QAOARunner.optimize: the local iteration
    history,           \* QAOARunner.optimize: the local history
    self_iteration,    \* QAOAOptimizer: self.iteration
    self_history,      \* QAOAOptimizer: self.history
    calls,             \* the objective calls the minimizer made in this optimize()
    result,            \* what optimize() returned
    hist_before_call,  \* the history as it was when the last objective call began
    runs,              \* optimize() calls made on the object so far
    \* ---- solve_qaoa
    request,           \* the QAOARequest: expression and backend
    api_pc,            \* position in solve_qaoa
    steps,             \* the steps of solve_qaoa that have run, in order
    response,          \* the QAOAResponse returned
    \* ---- PyToQ.create_variable_array / SymbolicVariableArray.__getitem__
    arrays,            \* the SymbolicVariableArray objects created, in order:
                       \* [name, cache], cache a function index tuple -> symbol
    variable_arrays,   \* PyToQ.variable_arrays: name -> place of its array in arrays
    lookups            \* the lookups made so far: [name, key, sym], in order

quboVars == <<expr, pc, Q, remaining, qres, hres>>
circVars == <<num_qubits, cost_hamiltonian, p, gamma, beta, qc, cpc, layer, half,
              blocks, observed, transpile_needed>>
optVars == <<okind, opc, iteration, history, self_iteration, self_history, calls,
             result, hist_before_call, runs>>
apiVars == <<request, api_pc, steps, response>>
symVars == <<arrays, variable_arrays, lookups>>
vars == <<quboVars, circVars, optVars, apiVars, symVars>>

(***************************************************************************)
(* Bounds                                                                  *)
(***************************************************************************)
MaxTerms == 2      \* addends of an input expression
MaxDim == 3        \* dimension of a matrix given to q_matrix_to_hamiltonian
MaxP == 2          \* QAOA depth p
MaxIter == 3       \* objective calls of one optimize() (maxiter)
MaxRuns == 2       \* optimize() calls on one object
MaxArrays == 2     \* create_variable_array calls on one PyToQ
MaxLookups == 3    \* lookups on the arrays of one PyToQ

CoeffScale == 4    \* model coefficient = CoeffScale * code coefficient

(***************************************************************************)
(* Small helpers                                                           *)
(***************************************************************************)
Min(a, b) == IF a < b THEN a ELSE b

RECURSIVE SumSet(_, _)
\* the sum of f[x] over the finite set S
SumSet(S, f) ==
    IF S = {} THEN 0
    ELSE LET x == CHOOSE y \in S : TRUE IN f[x] + SumSet(S \ {x}, f)

(***************************************************************************)
(* SymbolicVariableArray.__getitem__: the name of a symbol                 *)
(***************************************************************************)
Digits == <<"0", "1", "2", "3", "4", "5", "6", "7", "8", "9">>

RECURSIVE Str(_)
\* Python str(k) of a natural number, as a sequence of characters
Str(k) == IF k < 10 THEN <<Digits[k + 1]>>
          ELSE Str(k \div 10) \o <<Digits[(k % 10) + 1]>>

RECURSIVE JoinKey(_)
\* '_'.join(map(str, key)) for a non-empty index tuple
JoinKey(key) ==
    IF Len(key) = 1 THEN Str(key[1])
    ELSE Str(key[1]) \o <<"_">> \o JoinKey(Tail(key))

\* f"{self.name}_{'_'.join(map(str, key))}"
VarName(name, key) == name \o <<"_">> \o JoinKey(key)

\* the code point of a character (Python compares strings by code point)
Ord(c) ==
    IF c = "_" THEN 95
    ELSE IF c = "x" THEN 120
    ELSE 47 + (CHOOSE d \in 1..10 : Digits[d] = c)

\* Python's a < b on strings
NameLess(a, b) ==
    \E k \in 1..(Min(Len(a), Len(b)) + 1) :
        /\ \A m \in 1..(k - 1) : a[m] = b[m]
        /\ \/ k > Len(a) /\ k <= Len(b)
           \/ k <= Len(a) /\ k <= Len(b) /\ Ord(a[k]) < Ord(b[k])

\* the symbols of the model: x[1], x[10], x[2] of the array 'x'
IndexKeys == {<<1>>, <<10>>, <<2>>}
Syms == {VarName(<<"x">>, key) : key \in IndexKeys}


(***************************************************************************)
(* SymPy expressions                                                       *)
(*                                                                         *)
(* An expression is a SymPy Add in canonical form: a set of addends        *)
(*     coeff * mono * lin                                                  *)
(* with pairwise different (mono, lin) and coeff # 0, where mono is a      *)
(* product of powers of symbols (a function Syms -> exponent) and lin is   *)
(* either the number 1 (UnitForm: a plain monomial) or an unexpanded       *)
(* factor s + c*t, as in x_1*(x_10 + 1).  SymPy keeps such a product       *)
(* unevaluated until sp.expand.                                            *)
(***************************************************************************)
One == <<"1">>
Atoms == Syms \cup {One}
Exponents == {0, 1, 2}
CoeffValues == {-1, 1}

Degree(m) == SumSet(Syms, m)
UnitMono == [s \in Syms |-> 0]
UnitForm == [a \in Atoms |-> IF a = One THEN 1 ELSE 0]

\* the monomials of the inputs: the products of distinct symbols (1, x, x*y,
\* x*y*z), the squares x**2, and x**2*y for x before y by name
Monomials ==
    [Syms -> {0, 1}]
    \cup {[s \in Syms |-> IF s = v THEN 2 ELSE 0] : v \in Syms}
    \cup {m \in [Syms -> Exponents] :
            \E v, w \in Syms : /\ NameLess(v, w)
                               /\ m = [s \in Syms |-> IF s = v THEN 2
                                                      ELSE IF s = w THEN 1 ELSE 0]}
\* the unexpanded products  v*(t + 1)  of the inputs, for v before t by name
Products ==
    {pr \in {<<[s \in Syms |-> IF s = v THEN 1 ELSE 0],
               [a \in Atoms |-> IF a = t \/ a = One THEN 1 ELSE 0]>> :
                 v \in Syms, t \in Syms} :
        \E v, t \in Syms : NameLess(v, t) /\ pr[1][v] = 1 /\ pr[2][t] = 1}
\* the (mono, lin) keys of the addends of the inputs
TermKeys == {<<m, UnitForm>> : m \in Monomials} \cup Products

RECURSIVE KeySets(_)
\* the sets of at most k keys
KeySets(k) ==
    IF k = 0 THEN {{}}
    ELSE LET prev == KeySets(k - 1)
         IN prev \cup {ks \cup {key} : ks \in prev, key \in TermKeys}

\* the input expressions of at most k addends
Expressions(k) ==
    UNION {{{[coeff |-> c[key], mono |-> key[1], lin |-> key[2]] : key \in ks}
              : c \in [ks -> CoeffValues]} : ks \in KeySets(k)}

\* term.free_symbols of a product of powers
MonoVars(m) == {s \in Syms : m[s] > 0}
LinSupport(l) == {a \in Atoms : l[a] # 0}
\* expr.free_symbols: every symbol written in the (unexpanded) expression
FreeSymbols(e) ==
    UNION {MonoVars(a.mono) \cup (LinSupport(a.lin) \ {One}) : a \in e}

MulAtom(m, a) == IF a = One THEN m ELSE [m EXCEPT ![a] = @ + 1]

\* sp.expand(expr): the coefficient of the monomial m after distributing
\* every product and combining like monomials
ExpandedCoeff(e, m) ==
    LET parts == {<<a, t>> \in e \X Atoms : t \in LinSupport(a.lin)
                                            /\ MulAtom(a.mono, t) = m}
        val == [pt \in parts |-> pt[1].coeff * pt[1].lin[pt[2]]]
    IN SumSet(parts, val)

ExpandedKeys(e) ==
    UNION {{MulAtom(a.mono, t) : t \in LinSupport(a.lin)} : a \in e}

\* expanded.as_coefficients_dict(): monomial -> coefficient, like monomials
\* combined, cancelled monomials gone
AsCoefficientsDict(e) ==
    LET keys == {m \in ExpandedKeys(e) : ExpandedCoeff(e, m) # 0}
    IN [m \in keys |-> ExpandedCoeff(e, m)]

(***************************************************************************)
(* PyToQ.expression_to_q                                                   *)
(***************************************************************************)
\* sorted(S, key=lambda s: s.name) as the 0-based position of each symbol
SortedIndex(S) == [s \in S |-> Cardinality({t \in S : NameLess(t, s)})]

\* var_to_idx = {var: i for i, var in enumerate(all_vars)}
var_to_idx(e) == SortedIndex(FreeSymbols(e))

\* idx_to_var = {i: var for i, var in enumerate(all_vars)}
idx_to_var(e) ==
    LET S == FreeSymbols(e)
    IN [i \in 0..(Cardinality(S) - 1) |-> CHOOSE s \in S : SortedIndex(S)[s] = i]

\* np.zeros((n, n)), rows and columns numbered from 0
Zeros(n) == [i \in 0..(n - 1) |-> [j \in 0..(n - 1) |-> 0]]
Dim(Qm) == Cardinality(DOMAIN Qm)

\* the else branch of the loop: the term has 3 or more distinct symbols
TermRaisesSkipBug(term) == FALSE
TermRaises(term) == Cardinality(MonoVars(term)) > 2

\* one pass of the loop body for a term that does not raise: Q afterwards
AddTermLowerBug(Qm, idx, term, coeff) ==
    LET tv == MonoVars(term)
    IN  IF term = UnitMono \/ tv = {} THEN Qm
        ELSE IF Cardinality(tv) = 1 THEN
            LET i == idx[CHOOSE v \in tv : TRUE]
            IN [Qm EXCEPT ![i][i] = @ + coeff]
        ELSE
            LET first == CHOOSE v \in tv : \A w \in tv : w = v \/ NameLess(v, w)
                i == idx[first]
                j == idx[CHOOSE v \in tv : v # first]
            IN [Qm EXCEPT ![j][i] = @ + coeff]
AddTerm(Qm, idx, term, coeff) ==
    LET tv == MonoVars(term)
    IN  IF term = UnitMono \/ tv = {} THEN Qm
        ELSE IF Cardinality(tv) = 1 THEN
            LET i == idx[CHOOSE v \in tv : TRUE]
            IN [Qm EXCEPT ![i][i] = @ + coeff]
        ELSE
            \* vars_list = sorted(term_vars, key=lambda s: s.name)
            LET first == CHOOSE v \in tv : \A w \in tv : w = v \/ NameLess(v, w)
                i0 == idx[first]
                j0 == idx[CHOOSE v \in tv : v # first]
                i == IF i0 > j0 THEN j0 ELSE i0
                j == IF i0 > j0 THEN i0 ELSE j0
            IN [Qm EXCEPT ![i][j] = @ + coeff]

NoResult == [status |-> "none", Q |-> <<>>, idx_to_var |-> <<>>]
Raised == [status |-> "error", Q |-> <<>>, idx_to_var |-> <<>>]

\* lines 81-91: the index maps, the zero matrix, the expanded terms
ExprToQBegin ==
    /\ pc = "start"
    /\ Q' = Zeros(Cardinality(FreeSymbols(expr)))
    /\ remaining' = DOMAIN AsCoefficientsDict(expr)
    /\ pc' = "loop"
    /\ UNCHANGED <<expr, qres, hres>>
    /\ UNCHANGED <<circVars, optVars, apiVars, symVars>>

\* lines 93-117: one iteration of the loop, for a term that is accepted.
\* The dictionary's iteration order is not fixed by the code: any term not yet
\* visited may come next.
ExprToQTerm ==
    /\ pc = "loop"
    /\ \E term \in remaining :
        /\ ~TermRaises(term)
        /\ Q' = AddTerm(Q, var_to_idx(expr), term, AsCoefficientsDict(expr)[term])
        /\ remaining' = remaining \ {term}
    /\ UNCHANGED <<expr, pc, qres, hres>>
    /\ UNCHANGED <<circVars, optVars, apiVars, symVars>>

\* lines 118-122: one iteration of the loop, for a term that raises ValueError
ExprToQRaise ==
    /\ pc = "loop"
    /\ \E term \in remaining : TermRaises(term)
    /\ pc' = "raised"
    /\ qres' = Raised
    /\ UNCHANGED <<expr, Q, remaining, hres>>
    /\ UNCHANGED <<circVars, optVars, apiVars, symVars>>

\* line 124: return Q, idx_to_var
ExprToQReturn ==
    /\ pc = "loop"
    /\ remaining = {}
    /\ pc' = "returned"
    /\ qres' = [status |-> "ok", Q |-> Q, idx_to_var |-> idx_to_var(expr)]
    /\ UNCHANGED <<expr, Q, remaining, hres>>
    /\ UNCHANGED <<circVars, optVars, apiVars, symVars>>

(***************************************************************************)
(* PyToQ.q_matrix_to_hamiltonian                                           *)
(***************************************************************************)
\* make_pauli_string(positions, n): 'Z' at the string positions
\* (0-based) listed, 'I' elsewhere.  Character k of the model's sequence is
\* string position k - 1.
make_pauli_string(positions, n) ==
    [k \in 1..n |-> IF (k - 1) \in positions THEN "Z" ELSE "I"]

\* pauli_dict[key] = pauli_dict.get(key, 0) + delta on an insertion-ordered
\* dictionary, kept as a sequence of <<key, value>>
DictAdd(d, key, delta) ==
    IF \E k \in 1..Len(d) : d[k][1] = key
    THEN [k \in 1..Len(d) |-> IF d[k][1] = key THEN <<key, d[k][2] + delta>> ELSE d[k]]
    ELSE Append(d, <<key, delta>>)

\* the body of the double loop for the entry (i, j), i <= j
EntrySignBug(d, Qm, i, j) ==
    LET n == Dim(Qm)
        q == Qm[i][j]
    IN  IF q = 0 THEN d
        ELSE IF i = j THEN
            DictAdd(d, make_pauli_string({i}, n), (CoeffScale \div 2) * q)
        ELSE
            DictAdd(DictAdd(DictAdd(d,
                make_pauli_string({i, j}, n), (CoeffScale \div 4) * q),
                make_pauli_string({i}, n), (0 - (CoeffScale \div 4)) * q),
                make_pauli_string({j}, n), (0 - (CoeffScale \div 4)) * q)
Entry(d, Qm, i, j) ==
    LET n == Dim(Qm)
        q == Qm[i][j]
    IN  IF q = 0 THEN d
        ELSE IF i = j THEN
            \* -0.5 * Q[i,j]
            DictAdd(d, make_pauli_string({i}, n), (0 - (CoeffScale \div 2)) * q)
        ELSE
            \* 0.25 * Q[i,j] on Z_i Z_j, -0.25 * Q[i,j] on Z_i and on Z_j
            DictAdd(DictAdd(DictAdd(d,
                make_pauli_string({i, j}, n), (CoeffScale \div 4) * q),
                make_pauli_string({i}, n), (0 - (CoeffScale \div 4)) * q),
                make_pauli_string({j}, n), (0 - (CoeffScale \div 4)) * q)

RECURSIVE PauliLoop(_, _, _, _)
\* for i in range(n): for j in range(i, n): ...   from the entry (i, j) on
PauliLoop(d, Qm, i, j) ==
    LET n == Dim(Qm)
    IN  IF i >= n THEN d
        ELSE IF j >= n THEN PauliLoop(d, Qm, i + 1, i + 1)
        ELSE PauliLoop(Entry(d, Qm, i, j), Qm, i, j + 1)

\* SparsePauliOp.from_list(pauli_list): an empty list is rejected
\* ("Input Pauli list is empty"), otherwise the terms in list order
q_matrix_to_hamiltonian(Qm) ==
    LET pauli_list == PauliLoop(<<>>, Qm, 0, 0)
    IN  IF pauli_list = <<>> THEN [status |-> "error", terms |-> <<>>]
        ELSE [status |-> "ok", terms |-> pauli_list]

NoHam == [status |-> "none", terms |-> <<>>]

\* builder.q_matrix_to_hamiltonian(Q) on the matrix expression_to_q returned,
\* or on a matrix given directly
QMatrixToHamiltonian ==
    /\ pc \in {"returned", "matrix"}
    /\ hres' = q_matrix_to_hamiltonian(Q)
    /\ pc' = "hamiltonian"
    /\ UNCHANGED <<expr, Q, remaining, qres>>
    /\ UNCHANGED <<circVars, optVars, apiVars, symVars>>

\* no circuit is being built
CircIdle ==
    /\ num_qubits = 0
    /\ cost_hamiltonian = <<>>
    /\ p = 0
    /\ gamma = <<>>
    /\ beta = <<>>
    /\ qc = <<>>
    /\ cpc = "idle"
    /\ layer = 0
    /\ half = 1
    /\ blocks = <<>>
    /\ observed = <<>>
    /\ transpile_needed = FALSE

\* optimize() has not returned (or raised)
NoOptResult == [returned |-> FALSE, num_iterations |-> 0, history |-> <<>>]

\* no optimizer object exists
OptIdle ==
    /\ okind = "none"
    /\ opc = "idle"
    /\ iteration = 0
    /\ history = <<>>
    /\ self_iteration = 0
    /\ self_history = <<>>
    /\ calls = <<>>
    /\ result = NoOptResult
    /\ hist_before_call = <<>>
    /\ runs = 0

\* no response yet
NoResponse == [sent |-> FALSE, success |-> FALSE, error |-> "none"]

\* no request is being served
ApiIdle ==
    /\ request = [expression |-> {}, eval_result |-> "none", backend |-> "none"]
    /\ api_pc = "idle"
    /\ steps = <<>>
    /\ response = NoResponse

\* PyToQ() was constructed (variable_arrays = {}); no array, no lookup yet
SymIdle ==
    /\ arrays = <<>>
    /\ variable_arrays = <<>>
    /\ lookups = <<>>

(***************************************************************************)
(* Specifications of the two conversions                                   *)
(***************************************************************************)
\* the entries of the matrices given directly to q_matrix_to_hamiltonian
MatrixValues == {-2, 0, 1}

UpperPairs(n) == {ij \in (0..(n - 1)) \X (0..(n - 1)) : ij[1] <= ij[2]}
\* the upper-triangular n x n matrix with the entries f on and above the diagonal
UpperMatrix(n, f) ==
    [i \in 0..(n - 1) |-> [j \in 0..(n - 1) |-> IF i <= j THEN f[<<i, j>>] ELSE 0]]

\* an expression is handed to expression_to_q
InitQubo ==
    /\ expr \in Expressions(MaxTerms)
    /\ pc = "start"
    /\ Q = <<>>
    /\ remaining = {}
    /\ qres = NoResult
    /\ hres = NoHam
    /\ CircIdle
    /\ OptIdle
    /\ ApiIdle
    /\ SymIdle

NextQubo ==
    \/ ExprToQBegin
    \/ ExprToQTerm
    \/ ExprToQRaise
    \/ ExprToQReturn
    \/ QMatrixToHamiltonian

SpecQubo == InitQubo /\ [][NextQubo]_vars

\* an upper-triangular matrix is handed to q_matrix_to_hamiltonian
InitHam ==
    /\ expr = {}
    /\ pc = "matrix"
    /\ \E n \in 0..MaxDim : \E f \in [UpperPairs(n) -> MatrixValues] : Q = UpperMatrix(n, f)
    /\ remaining = {}
    /\ qres = NoResult
    /\ hres = NoHam
    /\ CircIdle
    /\ OptIdle
    /\ ApiIdle
    /\ SymIdle

NextHam == QMatrixToHamiltonian

SpecHam == InitHam /\ [][NextHam]_vars

(***************************************************************************)
(* Claims about the two conversions                                        *)
(***************************************************************************)
BitStrings(n) == [0..(n - 1) -> {0, 1}]

\* the QUBO objective  sum_i Q[i][i]*x_i + sum_{i<j} Q[i][j]*x_i*x_j
Objective(Qm, x) ==
    LET n == Dim(Qm)
        P == UpperPairs(n)
        val == [ij \in P |-> IF ij[1] = ij[2] THEN Qm[ij[1]][ij[2]] * x[ij[1]]
                             ELSE Qm[ij[1]][ij[2]] * x[ij[1]] * x[ij[2]]]
    IN SumSet(P, val)

\* the eigenvalue of a Pauli string of I and Z on the basis state x, with
\* z_i = 1 - 2*x_i for the string position i
PauliValue(pauli, x) ==
    LET ones == {k \in 1..Len(pauli) : pauli[k] = "Z" /\ x[k - 1] = 1}
    IN IF Cardinality(ones) % 2 = 0 THEN 1 ELSE -1

\* the diagonal energy of a list of (Pauli string, coefficient), in quarter units
Energy(terms, x) ==
    LET val == [k \in 1..Len(terms) |-> terms[k][2] * PauliValue(terms[k][1], x)]
    IN SumSet(1..Len(terms), val)

\* the dropped constant 0.5*sum_i Q[i][i] + 0.25*sum_{i<j} Q[i][j], in quarter units
DroppedConstant(Qm) ==
    LET P == UpperPairs(Dim(Qm))
        val == [ij \in P |-> IF ij[1] = ij[2] THEN 2 * Qm[ij[1]][ij[2]]
                             ELSE Qm[ij[1]][ij[2]]]
    IN SumSet(P, val)

\* C1: for every upper-triangular matrix Q and every bitstring x, the energy of
\* the Hamiltonian that q_matrix_to_hamiltonian(Q) returns, at z_i = 1 - 2*x_i,
\* is the QUBO objective of x minus the constant 0.5*sum Q[i][i] +
\* 0.25*sum_{i<j} Q[i][j], which does not depend on x.
C1_EnergyIsObjectiveMinusConstant ==
    (pc = "hamiltonian" /\ hres.status = "ok") =>
        \A x \in BitStrings(Dim(Q)) :
            Energy(hres.terms, x) = CoeffScale * Objective(Q, x) - DroppedConstant(Q)

\* a 3 x 3 matrix whose row 0 has a diagonal and two off-diagonal entries, all
\* of which land on the same single-Z string, has been converted
C1_Witness ==
    /\ pc = "hamiltonian"
    /\ hres.status = "ok"
    /\ Dim(Q) = 3
    /\ Q[0][0] # 0 /\ Q[0][1] # 0 /\ Q[0][2] # 0 /\ Q[1][2] # 0

\* the value of the unexpanded expression at a 0/1 assignment of the symbols
EvalExpr(e, x) ==
    LET val == [a \in e |->
                  a.coeff
                  * (IF \E s \in Syms : a.mono[s] > 0 /\ x[s] = 0 THEN 0 ELSE 1)
                  * SumSet(Atoms, [t \in Atoms |->
                                     a.lin[t] * (IF t = One THEN 1 ELSE x[t])])]
    IN SumSet(e, val)

\* the polynomial rebuilt from a returned matrix, index i standing for the
\* symbol map[i], at a 0/1 assignment of the symbols
Rebuilt(Qm, map, x) == Objective(Qm, [i \in DOMAIN map |-> x[map[i]]])

\* C2: the polynomial sum_i Q[i][i]*x_i + sum_{i<j} Q[i][j]*x_i*x_j rebuilt from
\* the matrix expression_to_q returns has the coefficients of the non-constant
\* monomials of the expanded input (binary variables: x**2 is x, so the two agree
\* as polynomials exactly when they agree at every 0/1 point up to the constant
\* term), and Q is zero below the diagonal.
C2_RebuiltPolynomialIsInput ==
    pc = "returned" =>
        /\ \A x \in [Syms -> {0, 1}] :
              Rebuilt(qres.Q, qres.idx_to_var, x)
                  = EvalExpr(expr, x) - EvalExpr(expr, [s \in Syms |-> 0])
        /\ \A i, j \in DOMAIN qres.Q : i > j => qres.Q[i][j] = 0

\* a matrix was returned whose cross term joins x_10 and x_2, in that index order
C2_Witness ==
    /\ pc = "returned"
    /\ \E i, j \in DOMAIN qres.Q :
          /\ i < j
          /\ qres.Q[i][j] # 0
          /\ qres.idx_to_var[i] = VarName(<<"x">>, <<10>>)
          /\ qres.idx_to_var[j] = VarName(<<"x">>, <<2>>)

\* the expanded polynomial has a monomial with 3 or more distinct symbols
HasCubicTerm(e) ==
    \E m \in DOMAIN AsCoefficientsDict(e) : Cardinality(MonoVars(m)) >= 3

\* C4: when the expanded polynomial has a monomial with 3 or more distinct
\* symbols, expression_to_q ends by raising and hands its caller neither a
\* matrix nor a variable map, wherever that monomial comes among the terms;
\* when it has none, expression_to_q never raises.
C4_CubicTermRaisesNothingReturned ==
    /\ HasCubicTerm(expr) =>
          /\ pc \in {"start", "loop", "raised"}
          /\ qres.status # "ok" /\ qres.Q = <<>> /\ qres.idx_to_var = <<>>
          /\ pc = "loop" => ENABLED ExprToQRaise
    /\ pc = "raised" => HasCubicTerm(expr) /\ qres = Raised

\* the loop raised after it had already added another term to its local Q
C4_Witness ==
    /\ pc = "raised"
    /\ qres = Raised
    /\ \E i, j \in DOMAIN Q : Q[i][j] # 0

\* the symbols of the retained (non-constant, non-cancelled) monomials
RetainedVars(e) == UNION {MonoVars(m) : m \in DOMAIN AsCoefficientsDict(e)}

\* C10: the dimension of the returned matrix is the number of distinct symbols
\* of the retained monomials of the expanded polynomial, and index i is the i-th
\* of exactly those symbols by name.
C10_DimensionIsRetainedVariables ==
    pc = "returned" =>
        /\ Dim(qres.Q) = Cardinality(RetainedVars(expr))
        /\ \A i \in DOMAIN qres.idx_to_var :
              /\ qres.idx_to_var[i] \in RetainedVars(expr)
              /\ SortedIndex(RetainedVars(expr))[qres.idx_to_var[i]] = i

\* the sum of the contributions of the entries of Qm to the Pauli string s, in
\* quarter units: -0.5*Q[i][i] on Z_i; 0.25*Q[i][j] on Z_i Z_j and -0.25*Q[i][j]
\* on each of Z_i and Z_j for i < j
Contributions(Qm, s) ==
    LET n == Dim(Qm)
        P == UpperPairs(n)
        val == [ij \in P |->
                  IF ij[1] = ij[2]
                  THEN (IF s = make_pauli_string({ij[1]}, n)
                        THEN (0 - 2) * Qm[ij[1]][ij[2]] ELSE 0)
                  ELSE (IF s = make_pauli_string({ij[1], ij[2]}, n)
                        THEN Qm[ij[1]][ij[2]] ELSE 0)
                       + (IF s = make_pauli_string({ij[1]}, n)
                          THEN 0 - Qm[ij[1]][ij[2]] ELSE 0)
                       + (IF s = make_pauli_string({ij[2]}, n)
                          THEN 0 - Qm[ij[1]][ij[2]] ELSE 0)]
    IN SumSet(P, val)

\* C11: the Hamiltonian q_matrix_to_hamiltonian returns holds each Pauli string
\* at most once, with the sum of all contributions to it as its coefficient,
\* and holds no Pauli string whose net coefficient is zero.
C11_StringsSummedZerosDropped ==
    (pc = "hamiltonian" /\ hres.status = "ok") =>
        /\ \A a, b \in 1..Len(hres.terms) :
              hres.terms[a][1] = hres.terms[b][1] => a = b
        /\ \A k \in 1..Len(hres.terms) :
              hres.terms[k][2] = Contributions(Q, hres.terms[k][1])
        /\ \A k \in 1..Len(hres.terms) : hres.terms[k][2] # 0

(***************************************************************************)
(* QAOACircuit                                                             *)
(***************************************************************************)
\* __init__: one X per qubit, coefficient 1.0; "I"*i + "X" + "I"*(n - i - 1)
mixer_hamiltonian(n) ==
    [i \in 1..n |-> <<[k \in 1..n |-> IF k = i THEN "X" ELSE "I"], CoeffScale>>]

\* [i for i, c in enumerate(pauli_str) if c == ch]: 0-based string positions
PositionsOf(pauli, ch) == {k - 1 : k \in {j \in 1..Len(pauli) : pauli[j] = ch}}
MinOf(S) == CHOOSE a \in S : \A b \in S : a <= b
MaxOf(S) == CHOOSE a \in S : \A b \in S : a >= b

Gate(name, qubits, theta) == [name |-> name, qubits |-> qubits, theta |-> theta]

\* the body of the loop of _apply_hamiltonian for one (pauli_str, coeff): the
\* string position is used as the qubit number
TermGatesAngleBug(term, angle) ==
    LET theta == angle * term[2]
        z_qubits == PositionsOf(term[1], "Z")
        x_qubits == PositionsOf(term[1], "X")
    IN  (IF Cardinality(z_qubits) = 1
            THEN <<Gate("rz", <<MinOf(z_qubits)>>, theta)>>
         ELSE IF Cardinality(z_qubits) = 2
            THEN <<Gate("rzz", <<MinOf(z_qubits), MaxOf(z_qubits)>>, theta)>>
         ELSE <<>>)
        \o (IF Cardinality(x_qubits) = 1
            THEN <<Gate("rx", <<MinOf(x_qubits)>>, theta)>>
            ELSE <<>>)
TermGates(term, angle) ==
    LET theta == 2 * angle * term[2]
        z_qubits == PositionsOf(term[1], "Z")
        x_qubits == PositionsOf(term[1], "X")
    IN  (IF Cardinality(z_qubits) = 1
            THEN <<Gate("rz", <<MinOf(z_qubits)>>, theta)>>
         ELSE IF Cardinality(z_qubits) = 2
            THEN <<Gate("rzz", <<MinOf(z_qubits), MaxOf(z_qubits)>>, theta)>>
         ELSE <<>>)
        \o (IF Cardinality(x_qubits) = 1
            THEN <<Gate("rx", <<MinOf(x_qubits)>>, theta)>>
            ELSE <<>>)

RECURSIVE apply_hamiltonian(_, _)
\* _apply_hamiltonian: the gates appended for hamiltonian.to_list(), in order
apply_hamiltonian(hamiltonian, angle) ==
    IF hamiltonian = <<>> THEN <<>>
    ELSE TermGates(Head(hamiltonian), angle) \o apply_hamiltonian(Tail(hamiltonian), angle)

\* line 37: len(gamma) != self.p or len(beta) != self.p
ParamCheckGammaOnlyBug(g, b, depth) == Len(g) # depth
ParamCheckFails(g, b, depth) == Len(g) # depth \/ Len(b) # depth

\* lines 45-46: within a layer, the cost Hamiltonian, then the mixer
LayerCallsSwappedBug == <<"mixer", "cost">>
LayerCalls == <<"cost", "mixer">>

Block(kind, l, before, after) ==
    [kind |-> kind, layer |-> l, first |-> Len(before) + 1, last |-> Len(after)]

\* lines 37-38: the parameter check fails, ValueError
BuildRaise ==
    /\ cpc = "call"
    /\ ParamCheckFails(gamma, beta, p)
    /\ cpc' = "raised"
    /\ UNCHANGED <<num_qubits, cost_hamiltonian, p, gamma, beta, qc, layer, half,
                   blocks, observed,
                   transpile_needed>>
    /\ UNCHANGED <<quboVars, optVars, apiVars, symVars>>

\* lines 40-42: qc = QuantumCircuit(n); qc.h(range(n))
BuildInit ==
    /\ cpc = "call"
    /\ ~ParamCheckFails(gamma, beta, p)
    /\ qc' = [k \in 1..num_qubits |-> Gate("h", <<k - 1>>, 0)]
    /\ blocks' = <<Block("init", 0, <<>>, qc')>>
    /\ layer' = 0
    /\ half' = 1
    /\ cpc' = "layers"
    /\ UNCHANGED <<num_qubits, cost_hamiltonian, p, gamma, beta, observed,
                   transpile_needed>>
    /\ UNCHANGED <<quboVars, optVars, apiVars, symVars>>

\* line 45: self._apply_hamiltonian(qc, self.cost_hamiltonian, gamma[layer])
ApplyCost ==
    /\ cpc = "layers"
    /\ layer < p
    /\ LayerCalls[half] = "cost"
    /\ qc' = qc \o apply_hamiltonian(cost_hamiltonian, gamma[layer + 1])
    /\ blocks' = Append(blocks, Block("cost", layer, qc, qc'))
    /\ IF half = 2 THEN layer' = layer + 1 /\ half' = 1
                   ELSE layer' = layer /\ half' = 2
    /\ UNCHANGED <<num_qubits, cost_hamiltonian, p, gamma, beta, cpc, observed,
                   transpile_needed>>
    /\ UNCHANGED <<quboVars, optVars, apiVars, symVars>>

\* line 46: self._apply_hamiltonian(qc, self.mixer_hamiltonian, beta[layer])
ApplyMixer ==
    /\ cpc = "layers"
    /\ layer < p
    /\ LayerCalls[half] = "mixer"
    /\ qc' = qc \o apply_hamiltonian(mixer_hamiltonian(num_qubits), beta[layer + 1])
    /\ blocks' = Append(blocks, Block("mixer", layer, qc, qc'))
    /\ IF half = 2 THEN layer' = layer + 1 /\ half' = 1
                   ELSE layer' = layer /\ half' = 2
    /\ UNCHANGED <<num_qubits, cost_hamiltonian, p, gamma, beta, cpc, observed,
                   transpile_needed>>
    /\ UNCHANGED <<quboVars, optVars, apiVars, symVars>>

\* line 48: return qc
BuildReturn ==
    /\ cpc = "layers"
    /\ layer = p
    /\ cpc' = "returned"
    /\ UNCHANGED <<num_qubits, cost_hamiltonian, p, gamma, beta, qc, layer, half,
                   blocks, observed,
                   transpile_needed>>
    /\ UNCHANGED <<quboVars, optVars, apiVars, symVars>>

\* The estimator reads a SparsePauliOp label with its last character as qubit 0:
\* the character at string position i acts on qubit n - 1 - i.
ObservableQubits(pauli) == {Len(pauli) - 1 - i : i \in PositionsOf(pauli, "Z")}

\* the final layouts self.pass_manager.run may report (circuit.layout) on a
\* device with one qubit more than the circuit: virtual qubit v ends on
\* physical qubit layout[v]
Layouts(n) ==
    {f \in [0..(n - 1) -> 0..n] : \A a, b \in 0..(n - 1) : f[a] = f[b] => a = b}

\* qaoa_runner.py line 114: circuit = self.pass_manager.run(circuit).  The
\* preset pass manager (layout, routing, translation to the device's basis
\* gates, optimisation) returns another circuit on the device's qubits; its
\* instructions are not those of the built circuit and the model does not
\* say what they are.  It is kept as one opaque entry: the circuit it was
\* made from and the layout it reports.
Transpiled(circuit, layout) ==
    <<[name |-> "transpiled", source |-> circuit, layout |-> layout]>>

\* qaoa_runner.py line 115: cost_hamiltonian.apply_layout(circuit.layout): the
\* operator of virtual qubit v acts on physical qubit layout[v]
ApplyLayout(qubits, layout) == {layout[v] : v \in qubits}

\* qaoa_runner.py lines 113-119: with transpile_needed the circuit is replaced
\* by the transpiled one and the observable is re-laid-out, otherwise the
\* observable is cost_hamiltonian; then self.estimator.run([(circuit, obs)])
EstimatorRun ==
    /\ cpc = "returned"
    /\ IF transpile_needed
       THEN \E layout \in Layouts(num_qubits) :
               /\ qc' = Transpiled(qc, layout)
               /\ observed' = [k \in 1..Len(cost_hamiltonian) |->
                     ApplyLayout(ObservableQubits(cost_hamiltonian[k][1]), layout)]
       ELSE /\ qc' = qc
            /\ observed' = [k \in 1..Len(cost_hamiltonian) |->
                  ObservableQubits(cost_hamiltonian[k][1])]
    /\ cpc' = "estimated"
    /\ UNCHANGED <<num_qubits, cost_hamiltonian, p, gamma, beta, layer, half,
                   blocks, transpile_needed>>
    /\ UNCHANGED <<quboVars, optVars, apiVars, symVars>>

\* no conversion is running
QuboIdle ==
    /\ expr = {}
    /\ pc = "idle"
    /\ Q = <<>>
    /\ remaining = {}
    /\ qres = NoResult
    /\ hres = NoHam

\* the parameter values of the inputs
GammaValues == {1, 3}
BetaValues == {2, 5}
\* the cost Hamiltonians of the inputs: those of the 1 x 1 and 2 x 2 matrices,
\* of the 3 x 3 matrix of ones, two 3-qubit operators that yield no cost gate,
\* and one with a constant term between a Z and a ZZ term
CostHamiltonians ==
    ({q_matrix_to_hamiltonian(UpperMatrix(1, f)).terms :
          f \in [UpperPairs(1) -> MatrixValues]}
     \cup {q_matrix_to_hamiltonian(UpperMatrix(2, f)).terms :
          f \in [UpperPairs(2) -> MatrixValues]}
     \cup {q_matrix_to_hamiltonian(UpperMatrix(3, [ij \in UpperPairs(3) |-> 1])).terms,
           <<<<<<"I", "I", "I">>, CoeffScale>>>>,
           <<<<<<"Z", "Z", "Z">>, CoeffScale>>, <<<<"I", "I", "I">>, 0 - CoeffScale>>>>,
           <<<<<<"Z", "I", "I">>, CoeffScale>>, <<<<"I", "I", "I">>, 0 - CoeffScale>>,
             <<<<"I", "Z", "Z">>, 0 - 2>>>>})
    \ {<<>>}

\* QAOACircuit(num_qubits, cost_hamiltonian, p).build_circuit(gamma, beta) is
\* called from the objective function of a simulator or an ibm runner
InitCircuit ==
    /\ QuboIdle
    /\ OptIdle
    /\ ApiIdle
    /\ SymIdle
    /\ cost_hamiltonian \in CostHamiltonians
    /\ num_qubits = Len(cost_hamiltonian[1][1])
    /\ p \in 1..MaxP
    /\ gamma \in UNION {[1..k -> GammaValues] : k \in 0..(MaxP + 1)}
    /\ beta \in UNION {[1..k -> BetaValues] : k \in 0..(MaxP + 1)}
    /\ qc = <<>>
    /\ cpc = "call"
    /\ layer = 0
    /\ half = 1
    /\ blocks = <<>>
    /\ observed = <<>>
    /\ transpile_needed \in BOOLEAN

NextCircuit ==
    \/ BuildRaise
    \/ BuildInit
    \/ ApplyCost
    \/ ApplyMixer
    \/ BuildReturn
    \/ EstimatorRun

SpecCircuit == InitCircuit /\ [][NextCircuit]_vars

(***************************************************************************)
(* Claims about build_circuit                                              *)
(***************************************************************************)
\* the qubits a gate of the circuit acts on
GateQubits(g) == {g.qubits[k] : k \in 1..Len(g.qubits)}

\* every term of the cost Hamiltonian has one or two Z, so that the k-th gate
\* of a cost block is the gate of the k-th term
OneGatePerTerm ==
    \A k \in 1..Len(cost_hamiltonian) :
        /\ Cardinality(PositionsOf(cost_hamiltonian[k][1], "Z")) \in {1, 2}
        /\ PositionsOf(cost_hamiltonian[k][1], "X") = {}

\* C3: for every term of the cost Hamiltonian, the qubits on which build_circuit
\* places the term's Z- or ZZ-rotation are the qubits on which the estimator
\* applies the term's Z operators.  Stated for a runner that hands the built
\* circuit and cost_hamiltonian to the estimator as they are (no transpile).
C3_SameQubitInCircuitAndEstimator ==
    (cpc = "estimated" /\ ~transpile_needed /\ OneGatePerTerm) =>
        \A k \in 1..Len(cost_hamiltonian) :
            GateQubits(qc[blocks[2].first + k - 1]) = observed[k]

\* C5: build_circuit raises the parameter-count error exactly when
\* len(gamma) # p or len(beta) # p, and it raises before any gate is appended.
C5_RaisesIffLengthMismatch ==
    /\ cpc \in {"raised", "layers", "returned", "estimated"} =>
          (cpc = "raised" <=> (Len(gamma) # p \/ Len(beta) # p))
    /\ cpc = "raised" => qc = <<>> /\ blocks = <<>>

\* build_circuit raised for a beta that is too long although gamma fits
C5_Witness ==
    /\ cpc = "raised"
    /\ Len(gamma) = p
    /\ Len(beta) > p

\* C6: the circuit build_circuit returns is 1 + 2p consecutive blocks: the
\* initialisation block of one Hadamard per qubit, then for l = 0..p-1 the cost
\* block of layer l followed by the mixer block of layer l (n X-rotations, one
\* per qubit); a cost block may be empty.
C6_BlocksInOrder ==
    cpc = "returned" =>
        /\ Len(blocks) = 1 + 2 * p
        /\ blocks[1].kind = "init"
        /\ blocks[1].first = 1 /\ blocks[1].last = num_qubits
        /\ \A k \in 1..num_qubits : qc[k].name = "h" /\ qc[k].qubits = <<k - 1>>
        /\ \A k \in 2..Len(blocks) : blocks[k].first = blocks[k - 1].last + 1
        /\ blocks[Len(blocks)].last = Len(qc)
        /\ \A l \in 0..(p - 1) :
              /\ blocks[2 + 2 * l].kind = "cost" /\ blocks[2 + 2 * l].layer = l
              /\ blocks[3 + 2 * l].kind = "mixer" /\ blocks[3 + 2 * l].layer = l
              /\ \A k \in blocks[2 + 2 * l].first..blocks[2 + 2 * l].last :
                    qc[k].name \in {"rz", "rzz"}
              /\ blocks[3 + 2 * l].last - blocks[3 + 2 * l].first + 1 = num_qubits
              /\ \A k \in blocks[3 + 2 * l].first..blocks[3 + 2 * l].last :
                    /\ qc[k].name = "rx"
                    /\ qc[k].qubits = <<k - blocks[3 + 2 * l].first>>

\* a depth-2 circuit was returned for a Hamiltonian whose terms yield no cost
\* gate: both cost blocks are empty
C6_Witness ==
    /\ cpc = "returned"
    /\ p = 2
    /\ Len(blocks) = 5
    /\ blocks[2].last < blocks[2].first
    /\ blocks[4].last < blocks[4].first
    /\ Len(qc) = 3 * num_qubits

\* the terms of a Hamiltonian with exactly one or exactly two Z, by their place
\* in the enumeration
GateTerms(H) ==
    {t \in 1..Len(H) : Cardinality(PositionsOf(H[t][1], "Z")) \in {1, 2}}

\* C12: in every layer l of a returned circuit, the cost block holds exactly one
\* gate per cost term with one or two Z, in the enumeration order of the terms:
\* a Z-rotation by 2*gamma[l]*c on q for a term with one Z, a ZZ-rotation by
\* 2*gamma[l]*c on (q1, q2) for a term with two Z; the mixer block holds exactly
\* one X-rotation by 2*beta[l] on each of the n qubits; the layer holds no
\* other gate.  Angles are in units of 1/CoeffScale, as the coefficients are.
C12_LayerGatesFromTerms ==
    cpc = "returned" =>
        \A l \in 0..(p - 1) :
            LET cb == blocks[2 + 2 * l]
                mb == blocks[3 + 2 * l]
                H == cost_hamiltonian
                G == GateTerms(H)
            IN  /\ cb.kind = "cost" /\ mb.kind = "mixer"
                /\ cb.last - cb.first + 1 = Cardinality(G)
                /\ \A t \in G :
                      LET g == qc[cb.first + Cardinality({u \in G : u <= t}) - 1]
                          zq == PositionsOf(H[t][1], "Z")
                      IN  /\ g.theta = 2 * gamma[l + 1] * H[t][2]
                          /\ IF Cardinality(zq) = 1
                             THEN g.name = "rz" /\ g.qubits = <<MinOf(zq)>>
                             ELSE g.name = "rzz" /\ g.qubits = <<MinOf(zq), MaxOf(zq)>>
                /\ mb.first = cb.last + 1
                /\ mb.last - mb.first + 1 = num_qubits
                /\ \A q \in 0..(num_qubits - 1) :
                      Cardinality({k \in mb.first..mb.last :
                          qc[k] = Gate("rx", <<q>>, 2 * beta[l + 1] * CoeffScale)}) = 1

\* a depth-2 circuit with different angles in its two layers was returned for a
\* Hamiltonian with a one-Z term, then a term that yields no gate, then a
\* two-Z term
C12_Witness ==
    /\ cpc = "returned"
    /\ p = 2
    /\ gamma[1] # gamma[2]
    /\ beta[1] # beta[2]
    /\ Len(cost_hamiltonian) = 3
    /\ GateTerms(cost_hamiltonian) = {1, 3}
    /\ Cardinality(PositionsOf(cost_hamiltonian[1][1], "Z")) = 1
    /\ Cardinality(PositionsOf(cost_hamiltonian[3][1], "Z")) = 2
    /\ Len(qc) = 3 + 2 * (2 + 3)

(***************************************************************************)
(* QAOARunner.optimize and QAOAOptimizer.optimize                          *)
(*                                                                         *)
(* scipy's minimize is the environment: while it runs it calls the         *)
(* objective function with parameter vectors of its choice, at most        *)
(* MaxIter times, and then returns; an exception raised by the objective   *)
(* function leaves minimize and optimize(), neither of which catches it.   *)
(* A parameter vector is named by a number, and the estimator's            *)
(* expectation for it is Expectation(params).                              *)
(***************************************************************************)
ParamValues == {1, 2}
Expectation(params) == 0 - (2 * params + 1)

\* the history and the counter the running optimize() uses: locals of
\* QAOARunner.optimize, fields of the QAOAOptimizer object
CurrentHistory == IF okind = "runner" THEN history ELSE self_history
CurrentIteration == IF okind = "runner" THEN iteration ELSE self_iteration

\* iteration += 1; history.append({'iteration': iteration, 'params':
\* params.copy(), 'cost': expectation})
RecordEvaluation(h, it, params, cost) ==
    Append(h, [iteration |-> it + 1, params |-> params, cost |-> cost])

\* build_circuit, pass_manager.run, estimator.run and job.result() all come
\* before the append: a call that fails there leaves the history as it was
HistoryAfterFailureDefaultBug(h, it, params) == RecordEvaluation(h, it, params, 0)
HistoryAfterFailure(h, it, params) == h

\* optimize() is called.  QAOARunner.optimize starts from iteration = 0 and
\* history = []; QAOAOptimizer.optimize uses the fields set in __init__.
OptimizeStart ==
    /\ opc \in {"idle", "done", "aborted"}
    /\ runs < MaxRuns
    /\ runs' = runs + 1
    /\ opc' = "minimizing"
    /\ calls' = <<>>
    /\ result' = NoOptResult
    /\ IF okind = "runner"
          THEN iteration' = 0 /\ history' = <<>>
          ELSE UNCHANGED <<iteration, history>>
    /\ hist_before_call' = IF okind = "runner" THEN <<>> ELSE self_history
    /\ UNCHANGED <<okind, self_iteration, self_history>>
    /\ UNCHANGED <<quboVars, circVars, apiVars, symVars>>

\* the minimizer calls objective_function(params) and gets the expectation
ObjectiveOk ==
    /\ opc = "minimizing"
    /\ Len(calls) < MaxIter
    /\ \E params \in ParamValues :
        LET cost == Expectation(params)
        IN  /\ calls' = Append(calls, [params |-> params, ok |-> TRUE, value |-> cost])
            /\ hist_before_call' = CurrentHistory
            /\ IF okind = "runner"
                  THEN /\ iteration' = iteration + 1
                       /\ history' = RecordEvaluation(history, iteration, params, cost)
                       /\ UNCHANGED <<self_iteration, self_history>>
                  ELSE /\ self_iteration' = self_iteration + 1
                       /\ self_history' =
                            RecordEvaluation(self_history, self_iteration, params, cost)
                       /\ UNCHANGED <<iteration, history>>
    /\ UNCHANGED <<okind, opc, result, runs>>
    /\ UNCHANGED <<quboVars, circVars, apiVars, symVars>>

\* the minimizer calls objective_function(params); building or evaluating the
\* circuit raises, and the exception leaves minimize and optimize()
ObjectiveFail ==
    /\ opc = "minimizing"
    /\ Len(calls) < MaxIter
    /\ \E params \in ParamValues :
        /\ calls' = Append(calls, [params |-> params, ok |-> FALSE, value |-> 0])
        /\ hist_before_call' = CurrentHistory
        /\ IF okind = "runner"
              THEN /\ history' = HistoryAfterFailure(history, iteration, params)
                   /\ UNCHANGED <<iteration, self_iteration, self_history>>
              ELSE /\ self_history' =
                        HistoryAfterFailure(self_history, self_iteration, params)
                   /\ UNCHANGED <<iteration, history, self_iteration>>
    /\ opc' = "aborted"
    /\ UNCHANGED <<okind, result, runs>>
    /\ UNCHANGED <<quboVars, circVars, apiVars, symVars>>

\* qaoa_runner.py lines 166-175: 'num_iterations': iteration, 'history': history
RunnerReturn ==
    /\ okind = "runner"
    /\ opc = "minimizing"
    /\ Len(calls) >= 1
    /\ result' = [returned |-> TRUE, num_iterations |-> iteration, history |-> history]
    /\ opc' = "done"
    /\ UNCHANGED <<okind, iteration, history, self_iteration, self_history, calls,
                   hist_before_call, runs>>
    /\ UNCHANGED <<quboVars, circVars, apiVars, symVars>>

\* qaoa_optimizer.py lines 86-94: 'num_iterations': getattr(result, 'nit',
\* self.iteration), 'history': self.history.  Whether the OptimizeResult has
\* a field nit, and its value, depend on the method: nit counts the
\* minimizer's own iterations, which may be 0 after several objective calls
\* and is not tied to the number of calls.
OptimizerReturn ==
    /\ okind = "optimizer"
    /\ opc = "minimizing"
    /\ Len(calls) >= 1
    /\ \E has_nit \in BOOLEAN : \E nit \in 0..MaxIter :
          result' = [returned |-> TRUE,
                     num_iterations |-> IF has_nit THEN nit ELSE self_iteration,
                     history |-> self_history]
    /\ opc' = "done"
    /\ UNCHANGED <<okind, iteration, history, self_iteration, self_history, calls,
                   hist_before_call, runs>>
    /\ UNCHANGED <<quboVars, circVars, apiVars, symVars>>

\* a QAOARunner, or a QAOAOptimizer just constructed (iteration 0, history [])
InitOpt ==
    /\ QuboIdle
    /\ CircIdle
    /\ ApiIdle
    /\ SymIdle
    /\ okind \in {"runner", "optimizer"}
    /\ opc = "idle"
    /\ iteration = 0
    /\ history = <<>>
    /\ self_iteration = 0
    /\ self_history = <<>>
    /\ calls = <<>>
    /\ result = NoOptResult
    /\ hist_before_call = <<>>
    /\ runs = 0

NextOpt ==
    \/ OptimizeStart
    \/ ObjectiveOk
    \/ ObjectiveFail
    \/ RunnerReturn
    \/ OptimizerReturn

SpecOpt == InitOpt /\ [][NextOpt]_vars

(***************************************************************************)
(* Claims about optimize()                                                 *)
(***************************************************************************)
\* C7: during one optimize(), after k objective calls the history holds exactly
\* k entries in call order, entry j carrying iteration j, the parameters of the
\* j-th call and the value it returned; the history returned is that history
\* and the num_iterations QAOARunner.optimize returns is its number of entries.
C7_HistoryMirrorsCalls ==
    (opc \in {"minimizing", "done"}) =>
        /\ Len(CurrentHistory) = Len(calls)
        /\ \A j \in 1..Len(calls) :
              /\ j \in DOMAIN CurrentHistory
              /\ CurrentHistory[j].iteration = j
              /\ CurrentHistory[j].params = calls[j].params
              /\ CurrentHistory[j].cost = calls[j].value
        /\ opc = "done" =>
              /\ result.history = CurrentHistory
              /\ okind = "runner" => result.num_iterations = Len(result.history)

\* the successful calls of this optimize(), as history entries numbered from `from`
RECURSIVE EntriesOf(_, _)
EntriesOf(cs, from) ==
    IF cs = <<>> THEN <<>>
    ELSE IF Head(cs).ok
         THEN <<[iteration |-> from + 1, params |-> Head(cs).params,
                 cost |-> Head(cs).value]>> \o EntriesOf(Tail(cs), from + 1)
         ELSE EntriesOf(Tail(cs), from)

\* C8: when the k-th objective call of an optimize() fails, optimize() ends with
\* that failure: nothing is returned, no further objective call is made, the
\* history is what it was when the failed call began (the k-1 entries of the
\* calls before it, none for the failed call).
C8_FailureAbortsRun ==
    opc = "aborted" =>
        /\ calls # <<>>
        /\ ~calls[Len(calls)].ok
        /\ \A j \in 1..(Len(calls) - 1) : calls[j].ok
        /\ result = NoOptResult
        /\ CurrentHistory = hist_before_call
        /\ \E prefix \in {SubSeq(CurrentHistory, 1, m) : m \in 0..Len(CurrentHistory)} :
              /\ Len(CurrentHistory) = Len(prefix) + Len(calls) - 1
              /\ CurrentHistory = prefix \o EntriesOf(calls, Len(prefix))
        /\ ~ENABLED ObjectiveOk
        /\ ~ENABLED ObjectiveFail

\* the third objective call of an optimize() failed after two that succeeded
C8_Witness ==
    /\ opc = "aborted"
    /\ Len(calls) = 3
    /\ Len(CurrentHistory) >= 2
    /\ calls[1].params # calls[2].params

\* C13: every optimize() call, on a QAOARunner or on a QAOAOptimizer, on a new
\* object or on one that has run before, starts with iteration counter 0 and
\* an empty history, and the history and the iteration count it returns hold
\* only the evaluations made during that call.  The count is compared for
\* QAOARunner.optimize, which returns its own counter; the count
\* QAOAOptimizer.optimize returns may be the minimizer's nit.
C13_FreshRunPerCall ==
    /\ (opc = "minimizing" /\ calls = <<>>) =>
          /\ CurrentIteration = 0
          /\ CurrentHistory = <<>>
    /\ opc = "done" =>
          /\ result.history = EntriesOf(calls, 0)
          /\ okind = "runner" => result.num_iterations = Len(calls)

(***************************************************************************)
(* solve_qaoa (src/src/api/main.py)                                        *)
(*                                                                         *)
(* Everything after `try:` runs in order; any exception ends the handler   *)
(* with QAOAResponse(success=False, error=str(e)).  The two conversions    *)
(* are the actions above; the optimization and the sampling are single     *)
(* steps here, each of which either completes or raises.                   *)
(***************************************************************************)
Failure(e) == [sent |-> TRUE, success |-> FALSE, error |-> e]

\* QAOARunner.__init__, lines 39-75: the branch the backend selects
BackendBranch(backend) ==
    IF backend = "simulator" THEN "simulator"
    ELSE IF backend = "ibm" THEN "ibm"
    ELSE "unknown"

\* lines 55-58: eval(request.expression, ...) gives a SymPy expression
ApiEval ==
    /\ api_pc = "request"
    /\ request.eval_result = "expression"
    /\ expr' = request.expression
    /\ pc' = "start"
    /\ steps' = Append(steps, "eval")
    /\ api_pc' = "converting"
    /\ UNCHANGED <<Q, remaining, qres, hres, request, response>>
    /\ UNCHANGED <<circVars, optVars, symVars>>

\* lines 55-58: eval(request.expression, ...) gives a value that is not a
\* SymPy expression: a Python number for a text such as '1', the array
\* itself for 'x'
ApiEvalNotSymPy ==
    /\ api_pc = "request"
    /\ request.eval_result = "not_sympy"
    /\ steps' = Append(steps, "eval")
    /\ api_pc' = "evaluated_not_sympy"
    /\ UNCHANGED <<request, response>>
    /\ UNCHANGED <<quboVars, circVars, optVars, symVars>>

\* line 60 with qubo_from_python.py line 81: expr.free_symbols on a value that
\* is not a SymPy expression raises AttributeError: expression_to_q returns
\* nothing and q_matrix_to_hamiltonian is not called
ApiExprToQNotSymPy ==
    /\ api_pc = "evaluated_not_sympy"
    /\ pc' = "raised"
    /\ qres' = Raised
    /\ response' = Failure("attribute_error")
    /\ api_pc' = "responded"
    /\ UNCHANGED <<expr, Q, remaining, hres, request, steps>>
    /\ UNCHANGED <<circVars, optVars, symVars>>

\* lines 55-58: eval(request.expression, ...) raises
ApiEvalFail ==
    /\ api_pc = "request"
    /\ request.eval_result = "raises"
    /\ steps' = Append(steps, "eval")
    /\ response' = Failure("eval")
    /\ api_pc' = "responded"
    /\ UNCHANGED request
    /\ UNCHANGED <<quboVars, circVars, optVars, symVars>>

\* lines 61-65: expression_to_q or q_matrix_to_hamiltonian raised
ApiConversionFail ==
    /\ api_pc = "converting"
    /\ \/ pc = "raised"
       \/ pc = "hamiltonian" /\ hres.status = "error"
    /\ response' = Failure(IF pc = "raised" THEN "degree" ELSE "empty_hamiltonian")
    /\ api_pc' = "responded"
    /\ UNCHANGED <<request, steps>>
    /\ UNCHANGED <<quboVars, circVars, optVars, symVars>>

\* lines 68-71 with QAOARunner.__init__ lines 39-43: the local simulator
ApiRunnerSimulator ==
    /\ api_pc = "converting"
    /\ pc = "hamiltonian" /\ hres.status = "ok"
    /\ BackendBranch(request.backend) = "simulator"
    /\ api_pc' = "runner"
    /\ UNCHANGED <<request, steps, response>>
    /\ UNCHANGED <<quboVars, circVars, optVars, symVars>>

\* lines 68-71 with QAOARunner.__init__ lines 45-72: IBM Quantum; connecting
\* either succeeds or raises
ApiRunnerIbm ==
    /\ api_pc = "converting"
    /\ pc = "hamiltonian" /\ hres.status = "ok"
    /\ BackendBranch(request.backend) = "ibm"
    /\ \/ api_pc' = "runner" /\ UNCHANGED response
       \/ api_pc' = "responded" /\ response' = Failure("ibm_connection")
    /\ UNCHANGED <<request, steps>>
    /\ UNCHANGED <<quboVars, circVars, optVars, symVars>>

\* lines 68-71 with QAOARunner.__init__ lines 74-75: ValueError("Unknown backend")
ApiRunnerUnknown ==
    /\ api_pc = "converting"
    /\ pc = "hamiltonian" /\ hres.status = "ok"
    /\ BackendBranch(request.backend) = "unknown"
    /\ response' = Failure("unknown_backend")
    /\ api_pc' = "responded"
    /\ UNCHANGED <<request, steps>>
    /\ UNCHANGED <<quboVars, circVars, optVars, symVars>>

\* lines 74-80: runner.optimize(...) completes or raises
ApiOptimize ==
    /\ api_pc = "runner"
    /\ steps' = Append(steps, "optimize")
    /\ \/ api_pc' = "optimized" /\ UNCHANGED response
       \/ api_pc' = "responded" /\ response' = Failure("optimize")
    /\ UNCHANGED request
    /\ UNCHANGED <<quboVars, circVars, optVars, symVars>>

\* lines 83-90: runner.sample_solution(...) completes or raises
ApiSample ==
    /\ api_pc = "optimized"
    /\ steps' = Append(steps, "sample")
    /\ \/ api_pc' = "sampled" /\ UNCHANGED response
       \/ api_pc' = "responded" /\ response' = Failure("sample")
    /\ UNCHANGED request
    /\ UNCHANGED <<quboVars, circVars, optVars, symVars>>

\* lines 93-113: the probabilities and QAOAResponse(success=True, ...)
ApiRespond ==
    /\ api_pc = "sampled"
    /\ response' = [sent |-> TRUE, success |-> TRUE, error |-> "none"]
    /\ api_pc' = "responded"
    /\ UNCHANGED <<request, steps>>
    /\ UNCHANGED <<quboVars, circVars, optVars, symVars>>

\* the backend selectors of the requests: the two the runner knows and one
\* it does not
Backends == {"simulator", "ibm", "aer"}

\* what eval makes of the expression text of a request
EvalResults == {"expression", "not_sympy", "raises"}

\* QAOARequest (imported at main.py line 6): the fields solve_qaoa reads that
\* decide its path, the expression text and the backend selector.  The text
\* is kept as what eval makes of it, and for a SymPy expression as that
\* expression with at most k addends.  The selector is the caller's value,
\* passed on to QAOARunner as it is.
QAOARequest(k) ==
    {[expression |-> e, eval_result |-> r, backend |-> b] :
        e \in Expressions(k), r \in EvalResults, b \in Backends}

\* a request arrives at solve_qaoa
InitApi ==
    /\ QuboIdle
    /\ CircIdle
    /\ OptIdle
    /\ SymIdle
    /\ request \in QAOARequest(MaxTerms)
    /\ request.eval_result = "expression" \/ request.expression = {}
    /\ api_pc = "request"
    /\ steps = <<>>
    /\ response = NoResponse

NextApi ==
    \/ ApiEval
    \/ ApiEvalNotSymPy
    \/ ApiExprToQNotSymPy
    \/ ApiEvalFail
    \/ ExprToQBegin
    \/ ExprToQTerm
    \/ ExprToQRaise
    \/ ExprToQReturn
    \/ QMatrixToHamiltonian
    \/ ApiConversionFail
    \/ ApiRunnerSimulator
    \/ ApiRunnerIbm
    \/ ApiRunnerUnknown
    \/ ApiOptimize
    \/ ApiSample
    \/ ApiRespond

SpecApi == InitApi /\ [][NextApi]_vars

\* C9: when solve_qaoa ends with the unknown-backend error, no expression
\* evaluation, QUBO conversion, Hamiltonian conversion, optimization or sampling
\* has run before it.
C9_UnknownBackendRejectedFirst ==
    response.error = "unknown_backend" =>
        /\ steps = <<>>
        /\ qres = NoResult
        /\ hres = NoHam

(***************************************************************************)
(* PyToQ.create_variable_array and SymbolicVariableArray.__getitem__       *)
(*                                                                         *)
(* A SymPy Symbol is identified by its name (all symbols here are created  *)
(* with the same assumption binary=True): sp.Symbol(n, binary=True) is     *)
(* the same variable as any other sp.Symbol(n, binary=True).  The model    *)
(* keeps a symbol as its name.                                             *)
(***************************************************************************)
\* the array names and the subscripts of the inputs: a subscript is a bare
\* index (x[i]) or an index tuple (x[i, j])
ArrayNames == {<<"x">>, <<"x", "_", "0">>}
Subscripts ==
    {[is_tuple |-> FALSE, value |-> <<1>>],
     [is_tuple |-> TRUE, value |-> <<1>>],
     [is_tuple |-> TRUE, value |-> <<0, 1>>],
     [is_tuple |-> TRUE, value |-> <<1, 0>>]}

\* lines 22-23: if not isinstance(key, tuple): key = (key,)
NormKey(k) == IF k.is_tuple THEN k.value ELSE <<k.value[1]>>

\* lines 25-29: the cache after the lookup of key; a key that is not cached
\* gets sp.Symbol(var_name, binary=True)
CacheAfter(array, k) ==
    IF k \in DOMAIN array.cache THEN array.cache
    ELSE array.cache @@ (k :> VarName(array.name, k))

\* lines 66-68: array = SymbolicVariableArray(name);
\* self.variable_arrays[name] = array.  An array of the same name made
\* earlier stays with its holder; the registry points to the new one.
CreateVariableArray ==
    /\ Len(arrays) < MaxArrays
    /\ \E n \in ArrayNames :
          /\ arrays' = Append(arrays, [name |-> n, cache |-> <<>>])
          /\ variable_arrays' =
                [m \in DOMAIN variable_arrays \cup {n} |->
                    IF m = n THEN Len(arrays) + 1 ELSE variable_arrays[m]]
    /\ UNCHANGED lookups
    /\ UNCHANGED <<quboVars, circVars, optVars, apiVars>>

\* array[subscript] on one of the arrays created
GetItem ==
    /\ Len(lookups) < MaxLookups
    /\ \E a \in 1..Len(arrays), sub \in Subscripts :
          LET k == NormKey(sub)
              cache == CacheAfter(arrays[a], k)
          IN  /\ arrays' = [arrays EXCEPT ![a].cache = cache]
              /\ lookups' = Append(lookups,
                    [name |-> arrays[a].name, key |-> k, sym |-> cache[k]])
    /\ UNCHANGED variable_arrays
    /\ UNCHANGED <<quboVars, circVars, optVars, apiVars>>

\* builder = PyToQ()
InitVars ==
    /\ QuboIdle
    /\ CircIdle
    /\ OptIdle
    /\ ApiIdle
    /\ SymIdle

NextVars ==
    \/ CreateVariableArray
    \/ GetItem

SpecVars == InitVars /\ [][NextVars]_vars

\* C14: over the lookups made on the arrays of one PyToQ, two lookups return
\* the same variable if and only if they use the same array name and the same
\* index tuple.
C14_VariableIdentityInjective ==
    \A a, b \in 1..Len(lookups) :
        (lookups[a].sym = lookups[b].sym)
            <=> (lookups[a].name = lookups[b].name /\ lookups[a].key = lookups[b].key)

====
